---------------------------- MODULE Spec2Model ----------------------------
(***************************************************************************)
(* esp32c3-embassy-picoserve: the WiFi connection supervisor               *)
(* (wifi.rs connection_task), the network readiness gate (wifi.rs          *)
(* wait_for_connection), the boot sequence and clock bootstrap (main.rs    *)
(* main, load_clock) and the HTTPS time-fetch client (http.rs Client).     *)
(*                                                                         *)
(* All tasks run on one cooperative executor; the radio (esp-wifi) changes *)
(* the station state and posts events on its own, at any point between two *)
(* steps of a task.  A panic ends in the handler of main.rs:28-31, which   *)
(* loops forever: no task of the executor takes another step.              *)
(***************************************************************************)
EXTENDS Integers, Sequences, FiniteSets, TLC

VARIABLES
    wifiState,      \* esp_wifi::wifi::wifi_state(): the station state of the radio
    configured,     \* the client configuration has been applied (set_configuration)
    evDisconnected, \* a WifiEvent::StaDisconnected is pending (posted, not yet consumed)
    supPc,          \* connection_task: where the supervisor is
    trace,          \* connection_task: the last trace line it printed (rprintln!)
    nDisc,          \* history: disconnect events of the radio (link losses)
    nFail,          \* history: failed association attempts
    waitedMs,       \* history: total of the supervisor's 5000 ms timers, in ms
    stackLinkUp,    \* embassy_net Stack::is_link_up()
    configV4,       \* embassy_net Stack::config_v4() is Some (an IPv4 lease is held)
    mainPc,         \* main / start_wifi / wait_for_connection: where the main task is
    panicked,       \* a task panicked: the executor is stuck in the panic handler
    rtcMemory,      \* the persistent clock store: what Clock::from_rtc_memory() finds
    bootPc,         \* load_clock: the state of the clock bootstrap
    clock,          \* the Clock load_clock returned (NoClock before)
    clientPc,       \* http::Client: where its send_request / fetch_current_time call is
    sessions,       \* TLS sessions alive that borrow the client's two record buffers
    slotsUsed,      \* connections held in the client's TcpClientState pool
    response,       \* the body the server sent in answer to the request in flight
    sendResult,     \* what send_request returned to fetch_current_time
    fetchResult,    \* what fetch_current_time returned to its caller
    fetchCalls,     \* history: calls of fetch_current_time
    calls,          \* client harness: calls made on the one client instance
    prevSend        \* client harness: the outcome of the previous send_request

wifiVars == <<wifiState, configured, evDisconnected, supPc, trace, nDisc, nFail, waitedMs>>
netVars == <<stackLinkUp, configV4>>
bootVars == <<rtcMemory, bootPc, clock>>
clientVars == <<clientPc, sessions, slotsUsed, response, sendResult, fetchResult, fetchCalls>>
harnessVars == <<calls, prevSend>>
appVars == <<bootVars, clientVars, harnessVars>>
vars == <<wifiState, configured, evDisconnected, supPc, trace, nDisc, nFail, waitedMs,
          stackLinkUp, configV4, mainPc, panicked,
          rtcMemory, bootPc, clock,
          clientPc, sessions, slotsUsed, response, sendResult, fetchResult, fetchCalls,
          calls, prevSend>>

----------------------------------------------------------------------------
(* Bounds of the model *)

\* Link losses the radio reports in one run.
MaxDisc == 2
\* Failed association attempts in one run.
MaxFail == 2

(* Program constants *)

\* The supervisor's fixed delay, Duration::from_millis(5000).
DelayMs == 5000

----------------------------------------------------------------------------
(* WiFi connection supervisor: wifi.rs connection_task                     *)

\* A supervisor that takes the controller for not started at every iteration.
is_started_Never == FALSE

\* controller.is_started(): the station has been started (and not stopped:
\* nothing in this program stops it).
is_started == wifiState \in {"StaStarted", "StaConnected", "StaDisconnected"}

\* The phase the supervisor's trace lines announce.
ConnectionState ==
    CASE trace \in {"none", "start connection task"} -> "Disconnected"
      [] trace \in {"Starting wifi", "Wifi started!"} -> "Starting"
      [] trace \in {"About to connect...", "Failed to connect to wifi"} -> "Connecting"
      [] trace = "Wifi connected!" -> "Connected"

\* A supervisor that is started afresh after a panic.
SupStart_Respawn ==
    /\ supPc \in {"spawned", "panicked"}
    /\ supPc' = "loop"
    /\ trace' = "start connection task"
    /\ panicked' = FALSE
    /\ UNCHANGED <<wifiState, configured, evDisconnected, nDisc, nFail, waitedMs,
                   stackLinkUp, configV4, mainPc>>
    /\ UNCHANGED appVars

\* The task's first poll: lines 65-66.
SupStart ==
    /\ ~panicked
    /\ supPc = "spawned"
    /\ supPc' = "loop"
    /\ trace' = "start connection task"
    /\ UNCHANGED <<wifiState, configured, evDisconnected, nDisc, nFail, waitedMs,
                   stackLinkUp, configV4, mainPc, panicked>>
    /\ UNCHANGED appVars

\* Line 68: match wifi_state().
SupLoopTop ==
    /\ ~panicked
    /\ supPc = "loop"
    /\ supPc' = IF wifiState = "StaConnected" THEN "enterWait" ELSE "checkStarted"
    /\ UNCHANGED <<wifiState, configured, evDisconnected, trace, nDisc, nFail, waitedMs,
                   stackLinkUp, configV4, mainPc, panicked>>
    /\ UNCHANGED appVars

\* Line 71, entering wait_for_event(StaDisconnected): the pending event is
\* cleared, then the task suspends until the next one is posted.
SupWaitForEvent ==
    /\ ~panicked
    /\ supPc = "enterWait"
    /\ evDisconnected' = FALSE
    /\ supPc' = "waitEvent"
    /\ UNCHANGED <<wifiState, configured, trace, nDisc, nFail, waitedMs,
                   stackLinkUp, configV4, mainPc, panicked>>
    /\ UNCHANGED appVars

\* Line 71, wait_for_event returns: a disconnect event was posted.
SupDisconnectObserved ==
    /\ ~panicked
    /\ supPc = "waitEvent"
    /\ evDisconnected
    /\ supPc' = "debounce"
    /\ UNCHANGED <<wifiState, configured, evDisconnected, trace, nDisc, nFail, waitedMs,
                   stackLinkUp, configV4, mainPc, panicked>>
    /\ UNCHANGED appVars

\* Line 72: Timer::after(5000 ms) elapses.
SupDebounce ==
    /\ ~panicked
    /\ supPc = "debounce"
    /\ waitedMs' = waitedMs + DelayMs
    /\ supPc' = "checkStarted"
    /\ UNCHANGED <<wifiState, configured, evDisconnected, trace, nDisc, nFail,
                   stackLinkUp, configV4, mainPc, panicked>>
    /\ UNCHANGED appVars

\* A supervisor that configures and starts at every iteration.
SupCheckStarted_AlwaysConfigure ==
    /\ ~panicked
    /\ supPc = "checkStarted"
    /\ configured' = TRUE
    /\ trace' = "Starting wifi"
    /\ supPc' = "starting"
    /\ UNCHANGED <<wifiState, evDisconnected, nDisc, nFail, waitedMs,
                   stackLinkUp, configV4, mainPc, panicked>>
    /\ UNCHANGED appVars

\* Lines 76-83 and 87-89: if the controller is not started, apply the client
\* configuration (unwrap: a failure panics) and begin start_async; otherwise
\* go on to the association attempt.
SupCheckStarted ==
    /\ ~panicked
    /\ supPc = "checkStarted"
    /\ IF ~is_started
       THEN \E cfgOk \in BOOLEAN :
              IF cfgOk
              THEN /\ configured' = TRUE
                   /\ trace' = "Starting wifi"
                   /\ supPc' = "starting"
                   /\ UNCHANGED panicked
              ELSE /\ panicked' = TRUE
                   /\ supPc' = "panicked"
                   /\ UNCHANGED <<configured, trace>>
       ELSE /\ trace' = "About to connect..."
            /\ supPc' = "connecting"
            /\ UNCHANGED <<configured, panicked>>
    /\ UNCHANGED <<wifiState, evDisconnected, nDisc, nFail, waitedMs,
                   stackLinkUp, configV4, mainPc>>
    /\ UNCHANGED appVars

\* Lines 84-89: start_async resolves (unwrap: a failure panics); on success
\* "Wifi started!" and "About to connect..." are printed and connect_async begins.
SupStartDone ==
    /\ ~panicked
    /\ supPc = "starting"
    /\ \E startOk \in BOOLEAN :
         IF startOk
         THEN /\ wifiState' = "StaStarted"
              /\ trace' = "About to connect..."
              /\ supPc' = "connecting"
              /\ UNCHANGED panicked
         ELSE /\ panicked' = TRUE
              /\ supPc' = "panicked"
              /\ UNCHANGED <<wifiState, trace>>
    /\ UNCHANGED <<configured, evDisconnected, nDisc, nFail, waitedMs,
                   stackLinkUp, configV4, mainPc>>
    /\ UNCHANGED appVars

\* Lines 89-92: connect_async resolves with Ok or Err.
SupConnectDone ==
    /\ ~panicked
    /\ supPc = "connecting"
    /\ \E ok \in BOOLEAN :
         IF ok
         THEN /\ wifiState' = "StaConnected"
              /\ trace' = "Wifi connected!"
              /\ supPc' = "loop"
              /\ UNCHANGED nFail
         ELSE /\ nFail < MaxFail
              /\ wifiState' = "StaDisconnected"
              /\ trace' = "Failed to connect to wifi"
              /\ supPc' = "retryDelay"
              /\ nFail' = nFail + 1
    /\ UNCHANGED <<configured, evDisconnected, nDisc, waitedMs,
                   stackLinkUp, configV4, mainPc, panicked>>
    /\ UNCHANGED appVars

\* A supervisor that backs off: the delay after a failed attempt is doubled.
SupRetryDelay_Backoff ==
    /\ ~panicked
    /\ supPc = "retryDelay"
    /\ waitedMs' = waitedMs + 2 * DelayMs
    /\ supPc' = "loop"
    /\ UNCHANGED <<wifiState, configured, evDisconnected, trace, nDisc, nFail,
                   stackLinkUp, configV4, mainPc, panicked>>
    /\ UNCHANGED appVars

\* A supervisor whose delay grows with the number of failed attempts.
SupRetryDelay_Growing ==
    /\ ~panicked
    /\ supPc = "retryDelay"
    /\ waitedMs' = waitedMs + DelayMs * nFail
    /\ supPc' = "loop"
    /\ UNCHANGED <<wifiState, configured, evDisconnected, trace, nDisc, nFail,
                   stackLinkUp, configV4, mainPc, panicked>>
    /\ UNCHANGED appVars

\* Line 93: Timer::after(5000 ms) elapses after a failed attempt.
SupRetryDelay ==
    /\ ~panicked
    /\ supPc = "retryDelay"
    /\ waitedMs' = waitedMs + DelayMs
    /\ supPc' = "loop"
    /\ UNCHANGED <<wifiState, configured, evDisconnected, trace, nDisc, nFail,
                   stackLinkUp, configV4, mainPc, panicked>>
    /\ UNCHANGED appVars

\* The radio loses the association: the station state changes and a
\* StaDisconnected event is posted, whatever the supervisor is doing.
RadioDisconnect ==
    /\ wifiState = "StaConnected"
    /\ nDisc < MaxDisc
    /\ wifiState' = "StaDisconnected"
    /\ evDisconnected' = TRUE
    /\ nDisc' = nDisc + 1
    /\ UNCHANGED <<configured, supPc, trace, nFail, waitedMs,
                   stackLinkUp, configV4, mainPc, panicked>>
    /\ UNCHANGED appVars

----------------------------------------------------------------------------
(* Network stack: wifi.rs net_task (runner.run()), configured for DHCPv4   *)
(* at wifi.rs:24-25.                                                       *)

\* The runner polls the driver's link state.  A link that came up restarts
\* DHCP; a link that went down drops the address configuration.
StackPoll ==
    /\ ~panicked
    /\ mainPc # "init"
    /\ stackLinkUp # (wifiState = "StaConnected")
    /\ stackLinkUp' = (wifiState = "StaConnected")
    /\ configV4' = FALSE
    /\ UNCHANGED <<wifiVars, mainPc, panicked>>
    /\ UNCHANGED appVars

\* DHCP obtains a lease over a link that is up.
DhcpConfigured ==
    /\ ~panicked
    /\ stackLinkUp
    /\ ~configV4
    /\ configV4' = TRUE
    /\ UNCHANGED <<wifiVars, stackLinkUp, mainPc, panicked>>
    /\ UNCHANGED appVars

\* The lease expires or is withdrawn.
DhcpDeconfigured ==
    /\ ~panicked
    /\ stackLinkUp
    /\ configV4
    /\ configV4' = FALSE
    /\ UNCHANGED <<wifiVars, stackLinkUp, mainPc, panicked>>
    /\ UNCHANGED appVars

----------------------------------------------------------------------------
(* Boot and readiness gate: main.rs main, wifi.rs start_wifi,              *)
(* wait_for_connection.                                                    *)

\* start_wifi lines 20-36: the stack is built, connection_task and net_task
\* are spawned, and the gate begins.
StartWifi ==
    /\ ~panicked
    /\ mainPc = "init"
    /\ supPc' = "spawned"
    /\ mainPc' = "waitLink"
    /\ UNCHANGED <<wifiState, configured, evDisconnected, trace, nDisc, nFail, waitedMs,
                   stackLinkUp, configV4, panicked>>
    /\ UNCHANGED appVars

\* A gate that does not wait for the link.
GateLinkObserved_Skipped == TRUE

\* wait_for_connection line 47.
GateLinkObserved == stackLinkUp

\* A gate that does not wait for the lease.
GateLeaseObserved_Skipped == TRUE

\* wait_for_connection line 55.
GateLeaseObserved == configV4

\* Lines 46-51: the first polling phase.
GateCheckLink ==
    /\ ~panicked
    /\ mainPc = "waitLink"
    /\ mainPc' = IF GateLinkObserved THEN "waitIp" ELSE "sleepLink"
    /\ UNCHANGED <<wifiVars, netVars, panicked>>
    /\ UNCHANGED appVars

\* Line 50: Timer::after(500 ms) elapses.
GateSleepLink ==
    /\ ~panicked
    /\ mainPc = "sleepLink"
    /\ mainPc' = "waitLink"
    /\ UNCHANGED <<wifiVars, netVars, panicked>>
    /\ UNCHANGED appVars

\* Lines 54-60 and start_wifi line 40: the second polling phase; when it
\* breaks, wait_for_connection returns and start_wifi returns the stack.
GateCheckIp ==
    /\ ~panicked
    /\ mainPc = "waitIp"
    /\ mainPc' = IF GateLeaseObserved THEN "ready" ELSE "sleepIp"
    /\ UNCHANGED <<wifiVars, netVars, panicked>>
    /\ UNCHANGED appVars

\* Line 59: Timer::after(500 ms) elapses.
GateSleepIp ==
    /\ ~panicked
    /\ mainPc = "sleepIp"
    /\ mainPc' = "waitIp"
    /\ UNCHANGED <<wifiVars, netVars, panicked>>
    /\ UNCHANGED appVars

\* start_wifi has returned the stack to its caller.
HandlePublished == mainPc \notin {"init", "waitLink", "sleepLink", "waitIp", "sleepIp"}

----------------------------------------------------------------------------
(* Values                                                                  *)
(*                                                                         *)
(* A body is a sequence of bytes.  A byte is written as the ASCII          *)
(* character it encodes, or "0xFF" for the byte 0xFF, which occurs in no   *)
(* UTF-8 text.  A 64-bit integer is kept as its sign and its decimal       *)
(* digits without leading zeros (TLC's integers are 32 bits wide), and     *)
(* compared digit by digit.                                                *)

\* Enumerated bodies are at most this long.
MaxBodyLen == 2
\* The client harness makes at most this many calls on its instance.
MaxCalls == 2

\* const RESPONSE_SIZE: usize = 4096, the capacity of the returned Vec.
RESPONSE_SIZE == 4096
\* let mut buffer = [0_u8; 4096], the buffer request.send reads the response into.
BufferSize == 4096
\* TcpClientState::<1, 4096, 4096>: the pool holds one connection.
PoolSize == 1

Digits == {"0", "1", "2", "3", "4", "5", "6", "7", "8", "9"}

DigitVal(c) ==
    CASE c = "0" -> 0 [] c = "1" -> 1 [] c = "2" -> 2 [] c = "3" -> 3 [] c = "4" -> 4
      [] c = "5" -> 5 [] c = "6" -> 6 [] c = "7" -> 7 [] c = "8" -> 8 [] c = "9" -> 9

Min(S) == CHOOSE x \in S : \A y \in S : x <= y

\* a < b for two magnitudes (digit sequences without leading zeros).
MagLess(a, b) ==
    \/ Len(a) < Len(b)
    \/ /\ Len(a) = Len(b)
       /\ \E i \in 1..Len(a) : a[i] < b[i] /\ \A j \in 1..(i - 1) : a[j] = b[j]

\* i64::MAX = 9223372036854775807 and the magnitude of i64::MIN.
I64MaxMag == <<9, 2, 2, 3, 3, 7, 2, 0, 3, 6, 8, 5, 4, 7, 7, 5, 8, 0, 7>>
I64MinMag == <<9, 2, 2, 3, 3, 7, 2, 0, 3, 6, 8, 5, 4, 7, 7, 5, 8, 0, 8>>

\* The Unix seconds OffsetDateTime::from_unix_timestamp accepts:
\* -377705116800 (-9999-01-01) to 253402300799 (9999-12-31 23:59:59).
MaxTimestampMag == <<2, 5, 3, 4, 0, 2, 3, 0, 0, 7, 9, 9>>
MinTimestampMag == <<3, 7, 7, 7, 0, 5, 1, 1, 6, 8, 0, 0>>

Int64(neg, mag) == [neg |-> neg, mag |-> mag]
Zero == Int64(FALSE, <<0>>)

\* core::str::from_utf8 on a body (http.rs:89).
from_utf8_ok(bytes) == \A i \in 1..Len(bytes) : bytes[i] # "0xFF"

\* The digits of a numeral, leading zeros dropped.
Magnitude(ds) ==
    LET vals == [i \in 1..Len(ds) |-> DigitVal(ds[i])]
        nz == {i \in 1..Len(ds) : vals[i] # 0}
    IN IF nz = {} THEN <<0>> ELSE SubSeq(vals, Min(nz), Len(ds))

\* A parser that takes '-' for the only sign.
ParseSign_MinusOnly(text) == IF Len(text) > 0 /\ text[1] = "-" THEN "-" ELSE ""

\* The sign text.parse::<i64>() reads: one leading '-' or '+'.
ParseSign(text) == IF Len(text) > 0 /\ text[1] \in {"-", "+"} THEN text[1] ELSE ""

\* text.parse::<i64>() (http.rs:94): an optional sign, then one or more
\* decimal digits and nothing else; a value outside i64 is an error.
ParseI64(text) ==
    LET sign == ParseSign(text)
        ds == IF sign = "" THEN text ELSE SubSeq(text, 2, Len(text))
        neg == sign = "-"
    IN IF Len(ds) = 0 \/ \E i \in 1..Len(ds) : ds[i] \notin Digits
       THEN [tag |-> "Err"]
       ELSE LET mag == Magnitude(ds) IN
            IF MagLess(IF neg THEN I64MinMag ELSE I64MaxMag, mag)
            THEN [tag |-> "Err"]
            ELSE [tag |-> "Ok", val |-> Int64(neg /\ mag # <<0>>, mag)]

\* OffsetDateTime::from_unix_timestamp(timestamp) is Ok (http.rs:99).
InTimestampRange(n) ==
    ~MagLess(IF n.neg THEN MinTimestampMag ELSE MaxTimestampMag, n.mag)

\* The bodies a server may answer with.
Alphabet == {"0", "7", "-", "+", " ", "0xFF"}
Repeat(c, n) == [i \in 1..n |-> c]
\* The largest 64-bit integer as a body: a valid signed base-10 integer that
\* is no Unix time OffsetDateTime can hold.
I64MaxBody ==
    <<"9", "2", "2", "3", "3", "7", "2", "0", "3", "6", "8", "5", "4", "7", "7", "5", "8", "0", "7">>
\* One second past 9999-12-31 23:59:59.
Year10000Body == <<"2", "5", "3", "4", "0", "2", "3", "0", "0", "8", "0", "0">>

NamedBodies == {
    <<"1", "7", "0", "0", "0", "0", "0", "0", "0", "0">>,
    <<"-", "5">>,
    <<"4", "2">>,
    <<"n", "o", "t", "-", "a", "-", "n", "u", "m", "b", "e", "r">>,
    <<"2", "5", "3", "4", "0", "2", "3", "0", "0", "7", "9", "9">>,
    Year10000Body,
    <<"-", "3", "7", "7", "7", "0", "5", "1", "1", "6", "8", "0", "0">>,
    <<"-", "3", "7", "7", "7", "0", "5", "1", "1", "6", "8", "0", "1">>,
    I64MaxBody,
    <<"9", "2", "2", "3", "3", "7", "2", "0", "3", "6", "8", "5", "4", "7", "7", "5", "8", "0", "8">>,
    <<"1", "0xFF">>,
    Repeat("1", RESPONSE_SIZE),
    Repeat("1", RESPONSE_SIZE + 1) }
EnumeratedBodies == UNION {[1..n -> Alphabet] : n \in 0..MaxBodyLen}
Bodies == NamedBodies \cup EnumeratedBodies

\* Clock::new(epoch, offset): seconds since the epoch and a UTC offset in hours.
Clock(epoch, offset) == [tag |-> "Clock", epoch |-> epoch, offset |-> offset]
UTC == 0
\* No clock (yet): the variable clock before load_clock returns.
NoClock == [tag |-> "None"]
\* What the RTC memory may hold at boot: nothing, or a clock saved earlier.
Absent == [tag |-> "None"]
Stores == {Absent, Clock(Int64(FALSE, <<4, 2>>), 2), Clock(Int64(TRUE, <<7>>), UTC)}

\* Result values.
Pending == [tag |-> "Pending"]
Ok(v) == [tag |-> "Ok", val |-> v]
\* An http::Error: its variant, and what it wraps.
Err(variant, cause) == [tag |-> "Err", variant |-> variant, cause |-> cause]
\* The outcome of a call without the value it carries.
Outcome(r) == IF r.tag = "Err" THEN <<r.variant, r.cause>> ELSE <<r.tag, "">>

----------------------------------------------------------------------------
(* HTTPS time-fetch client: http.rs Client                                 *)

\* A client whose calls could begin while another call on it is in progress.
ClientBorrowable_Unchecked == clientPc # "none"

\* send_request and fetch_current_time take &mut self: a call on the
\* instance begins only while no other call on it is in progress.
ClientBorrowable == clientPc \in {"idle", "done"}

\* The bodies the server answers with: every body in the client harness, the
\* named ones in the boot sequence.
ResponseBodies == IF mainPc = "harness" THEN Bodies ELSE NamedBodies

\* fetch_current_time lines 84-87 and send_request lines 107-125, up to the
\* first await: the TLS configuration borrows the two record buffers.
BeginFetch ==
    /\ clientPc' = "request"
    /\ sessions' = sessions + 1
    /\ response' = <<>>
    /\ sendResult' = Pending
    /\ fetchResult' = Pending
    /\ fetchCalls' = fetchCalls + 1
    /\ UNCHANGED slotsUsed

\* A send_request that keeps its connection when it returns an error.
SendReturn_Leak(r, held) ==
    /\ sendResult' = r
    /\ clientPc' = "returned"
    /\ sessions' = sessions - 1
    /\ slotsUsed' = IF held /\ r.tag = "Ok" THEN slotsUsed - 1 ELSE slotsUsed

\* A send_request that starts over when a step fails.
SendReturn_Retry(r, held) ==
    /\ sendResult' = r
    /\ clientPc' = IF r.tag = "Err" THEN "request" ELSE "returned"
    /\ sessions' = IF r.tag = "Err" THEN sessions ELSE sessions - 1
    /\ slotsUsed' = IF held THEN slotsUsed - 1 ELSE slotsUsed

\* send_request returns r: its locals are dropped, which ends the borrow of
\* the record buffers and closes the connection (held tells whether the call
\* had one), freeing its slot in the pool.
SendReturn(r, held) ==
    /\ sendResult' = r
    /\ clientPc' = "returned"
    /\ sessions' = sessions - 1
    /\ slotsUsed' = IF held THEN slotsUsed - 1 ELSE slotsUsed

\* Line 129, client.request(GET, url).await?: resolve the host, open the TCP
\* connection (one slot of the pool), do the TLS handshake.
SendRequestConnect ==
    /\ ~panicked
    /\ clientPc = "request"
    /\ \E o \in {"ok", "Dns", "Connect", "Tls"} :
         IF o = "ok" /\ slotsUsed < PoolSize
         THEN /\ slotsUsed' = slotsUsed + 1
              /\ clientPc' = "send"
              /\ UNCHANGED <<sessions, sendResult>>
         ELSE SendReturn(Err("Reqless", IF o = "ok" THEN "Connect" ELSE o), FALSE)
    /\ UNCHANGED <<response, fetchResult, fetchCalls>>
    /\ UNCHANGED <<wifiVars, netVars, mainPc, panicked, bootVars, harnessVars>>

\* Line 132, request.send(&mut buffer).await?: the request goes out and the
\* response head comes back; the server has chosen its body.
SendRequestSend ==
    /\ ~panicked
    /\ clientPc = "send"
    /\ \E o \in {"ok", "Network"} :
         IF o = "ok"
         THEN /\ \E b \in ResponseBodies : response' = b
              /\ clientPc' = "read"
              /\ UNCHANGED <<sessions, slotsUsed, sendResult>>
         ELSE /\ SendReturn(Err("Reqless", o), TRUE)
              /\ UNCHANGED response
    /\ UNCHANGED <<fetchResult, fetchCalls>>
    /\ UNCHANGED <<wifiVars, netVars, mainPc, panicked, bootVars, harnessVars>>

\* Line 136, response.body().read_to_end(): the body is read into the buffer
\* handed to send (line 128) and the filled part of that buffer is returned;
\* a body the buffer cannot hold is an error of the HTTP client.
read_to_end(body) ==
    IF Len(body) > BufferSize THEN Err("Reqless", "BufferTooSmall") ELSE Ok(body)

\* Lines 140-141, Vec::<u8, RESPONSE_SIZE>::from_slice(buffer).map_err(..).
from_slice(buffer) ==
    IF Len(buffer) > RESPONSE_SIZE THEN Err("ResponseTooLarge", "") ELSE Ok(buffer)

\* Lines 136-143: read the body, copy it into the bounded Vec, return it.
SendRequestRead ==
    /\ ~panicked
    /\ clientPc = "read"
    /\ \E o \in {"ok", "Network"} :
         IF o = "ok"
         THEN LET buffer == read_to_end(response) IN
              SendReturn(IF buffer.tag = "Err" THEN buffer ELSE from_slice(buffer.val), TRUE)
         ELSE SendReturn(Err("Reqless", o), TRUE)
    /\ UNCHANGED <<response, fetchResult, fetchCalls>>
    /\ UNCHANGED <<wifiVars, netVars, mainPc, panicked, bootVars, harnessVars>>

\* A fetch_current_time that checks the conversion and returns an error.
fetch_current_time_Checked(sent) ==
    IF sent.tag = "Err" THEN sent
    ELSE IF ~from_utf8_ok(sent.val) THEN Err("Utf8Error", "")
    ELSE LET timestamp == ParseI64(sent.val) IN
         IF timestamp.tag = "Err" THEN Err("ParseIntError", "")
         ELSE IF InTimestampRange(timestamp.val) THEN Ok(timestamp.val)
         ELSE Err("ComponentRange", "")

\* fetch_current_time lines 87-102 on what send_request returned: the error
\* as it is, else decode, parse and convert; the conversion is unwrapped.
fetch_current_time(sent) ==
    IF sent.tag = "Err" THEN sent
    ELSE IF ~from_utf8_ok(sent.val) THEN Err("Utf8Error", "")
    ELSE LET timestamp == ParseI64(sent.val) IN
         IF timestamp.tag = "Err" THEN Err("ParseIntError", "")
         ELSE IF InTimestampRange(timestamp.val) THEN Ok(timestamp.val)
         ELSE [tag |-> "Panic"]

\* Lines 87-102: fetch_current_time goes on after send_request returned.
FetchDecode ==
    /\ ~panicked
    /\ clientPc = "returned"
    /\ LET r == fetch_current_time(sendResult) IN
       IF r.tag = "Panic"
       THEN /\ panicked' = TRUE
            /\ clientPc' = "panicked"
            /\ bootPc' = IF bootPc = "TryNetwork" THEN "Fault" ELSE bootPc
            /\ UNCHANGED fetchResult
       ELSE /\ fetchResult' = r
            /\ clientPc' = "done"
            /\ UNCHANGED <<panicked, bootPc>>
    /\ UNCHANGED <<sessions, slotsUsed, response, sendResult, fetchCalls>>
    /\ UNCHANGED <<wifiVars, netVars, mainPc, rtcMemory, clock, harnessVars>>

\* A caller that owns a client instance and calls fetch_current_time on it
\* again and again.
HarnessCall ==
    /\ ~panicked
    /\ mainPc = "harness"
    /\ ClientBorrowable
    /\ calls < MaxCalls
    /\ calls' = calls + 1
    /\ prevSend' = Outcome(sendResult)
    /\ BeginFetch
    /\ UNCHANGED <<wifiVars, netVars, mainPc, panicked, bootVars>>

----------------------------------------------------------------------------
(* Clock bootstrap: main.rs load_clock, and main after it                  *)

\* Clock::from_rtc_memory(): the clock the persistent store holds, if any.
from_rtc_memory == rtcMemory

\* Clock::from_server(&mut http_client) on what fetch_current_time returned:
\* the fetched seconds with a zero UTC offset, or the error.
from_server(fetched) ==
    IF fetched.tag = "Ok" THEN Ok(Clock(fetched.val, UTC)) ELSE fetched

\* A main that begins the bootstrap while the gate is still waiting.
BootStart_BeforeGate ==
    /\ ~panicked
    /\ mainPc \in {"sleepLink", "sleepIp", "ready"}
    /\ mainPc' = "loadClock"
    /\ bootPc' = "TryPersistent"
    /\ UNCHANGED <<wifiVars, netVars, panicked, rtcMemory, clock, clientVars, harnessVars>>

\* main.rs lines 83-85: main calls load_clock with the stack start_wifi returned.
BootStart ==
    /\ ~panicked
    /\ mainPc = "ready"
    /\ mainPc' = "loadClock"
    /\ bootPc' = "TryPersistent"
    /\ UNCHANGED <<wifiVars, netVars, panicked, rtcMemory, clock, clientVars, harnessVars>>

\* A bootstrap that does not look at what the store returned.
BootTryPersistent_AlwaysNetwork ==
    /\ ~panicked
    /\ bootPc = "TryPersistent"
    /\ bootPc' = "TryNetwork"
    /\ clientPc' = "idle"
    /\ UNCHANGED clock
    /\ UNCHANGED <<sessions, slotsUsed, response, sendResult, fetchResult, fetchCalls>>
    /\ UNCHANGED <<wifiVars, netVars, mainPc, panicked, rtcMemory, harnessVars>>

\* load_clock lines 136-141: adopt the stored clock, or build the client.
BootTryPersistent ==
    /\ ~panicked
    /\ bootPc = "TryPersistent"
    /\ IF from_rtc_memory # Absent
       THEN /\ clock' = from_rtc_memory
            /\ bootPc' = "Done"
            /\ UNCHANGED clientPc
       ELSE /\ bootPc' = "TryNetwork"
            /\ clientPc' = "idle"
            /\ UNCHANGED clock
    /\ UNCHANGED <<sessions, slotsUsed, response, sendResult, fetchResult, fetchCalls>>
    /\ UNCHANGED <<wifiVars, netVars, mainPc, panicked, rtcMemory, harnessVars>>

\* load_clock line 142: Clock::from_server calls fetch_current_time.
BootFromServerCall ==
    /\ ~panicked
    /\ bootPc = "TryNetwork"
    /\ clientPc = "idle"
    /\ BeginFetch
    /\ UNCHANGED <<wifiVars, netVars, mainPc, panicked, bootVars, harnessVars>>

\* load_clock lines 142-151: from_server returned; an error leads to the
\* fallback, a clock is returned as it is.
BootFromServerReturn ==
    /\ ~panicked
    /\ bootPc = "TryNetwork"
    /\ clientPc = "done"
    /\ LET r == from_server(fetchResult) IN
       IF r.tag = "Err"
       THEN /\ bootPc' = "Fallback"
            /\ UNCHANGED <<clock, clientPc>>
       ELSE /\ clock' = r.val
            /\ bootPc' = "Done"
            /\ clientPc' = "dropped"
    /\ UNCHANGED <<sessions, slotsUsed, response, sendResult, fetchResult, fetchCalls>>
    /\ UNCHANGED <<wifiVars, netVars, mainPc, panicked, rtcMemory, harnessVars>>

\* A fallback that hands the failure on instead of a clock.
BootFallback_Propagate ==
    /\ ~panicked
    /\ bootPc = "Fallback"
    /\ bootPc' = "Done"
    /\ clientPc' = "dropped"
    /\ UNCHANGED clock
    /\ UNCHANGED <<sessions, slotsUsed, response, sendResult, fetchResult, fetchCalls>>
    /\ UNCHANGED <<wifiVars, netVars, mainPc, panicked, rtcMemory, harnessVars>>

\* load_clock lines 145-147: return Clock::new(0, UtcOffset::UTC).
BootFallback ==
    /\ ~panicked
    /\ bootPc = "Fallback"
    /\ clock' = Clock(Zero, UTC)
    /\ bootPc' = "Done"
    /\ clientPc' = "dropped"
    /\ UNCHANGED <<sessions, slotsUsed, response, sendResult, fetchResult, fetchCalls>>
    /\ UNCHANGED <<wifiVars, netVars, mainPc, panicked, rtcMemory, harnessVars>>

\* main.rs line 92: clock.now().unwrap(); now() returns a Result.
MainPrintNow ==
    /\ ~panicked
    /\ mainPc = "loadClock"
    /\ bootPc = "Done"
    /\ \E nowOk \in BOOLEAN :
         IF nowOk
         THEN mainPc' = "webApp" /\ UNCHANGED panicked
         ELSE panicked' = TRUE /\ mainPc' = "panicked"
    /\ UNCHANGED <<wifiVars, netVars, appVars>>

\* main.rs lines 95-106: build the web app around the clock and spawn the
\* web tasks.
MainSpawnWeb ==
    /\ ~panicked
    /\ mainPc = "webApp"
    /\ mainPc' = "serving"
    /\ UNCHANGED <<wifiVars, netVars, panicked, appVars>>

----------------------------------------------------------------------------

Init ==
    /\ wifiState = "Invalid"
    /\ configured = FALSE
    /\ evDisconnected = FALSE
    /\ supPc = "notSpawned"
    /\ trace = "none"
    /\ nDisc = 0
    /\ nFail = 0
    /\ waitedMs = 0
    /\ stackLinkUp = FALSE
    /\ configV4 = FALSE
    /\ mainPc = "init"
    /\ panicked = FALSE
    /\ rtcMemory \in Stores
    /\ bootPc = "NotStarted"
    /\ clock = NoClock
    /\ clientPc = "none"
    /\ sessions = 0
    /\ slotsUsed = 0
    /\ response = <<>>
    /\ sendResult = Pending
    /\ fetchResult = Pending
    /\ fetchCalls = 0
    /\ calls = 0
    /\ prevSend = Outcome(Pending)

Next ==
    \/ SupStart \/ SupLoopTop \/ SupWaitForEvent \/ SupDisconnectObserved
    \/ SupDebounce \/ SupCheckStarted \/ SupStartDone \/ SupConnectDone
    \/ SupRetryDelay \/ RadioDisconnect
    \/ StackPoll \/ DhcpConfigured \/ DhcpDeconfigured
    \/ StartWifi \/ GateCheckLink \/ GateSleepLink \/ GateCheckIp \/ GateSleepIp
    \/ BootStart \/ BootTryPersistent \/ BootFromServerCall
    \/ SendRequestConnect \/ SendRequestSend \/ SendRequestRead \/ FetchDecode
    \/ BootFromServerReturn \/ BootFallback \/ MainPrintNow \/ MainSpawnWeb

Spec == Init /\ [][Next]_vars

\* The executor polls every task that is ready and every timer fires: a
\* step of the supervisor or of the gate that stays possible is taken.  The
\* radio, the driver's futures (start, connect) and DHCP owe nothing.
WifiFairness ==
    /\ WF_vars(SupStart) /\ WF_vars(SupLoopTop) /\ WF_vars(SupWaitForEvent)
    /\ WF_vars(SupDisconnectObserved) /\ WF_vars(SupDebounce)
    /\ WF_vars(SupCheckStarted) /\ WF_vars(SupRetryDelay)
    /\ WF_vars(StartWifi) /\ WF_vars(StackPoll)
    /\ WF_vars(GateCheckLink) /\ WF_vars(GateSleepLink)
    /\ WF_vars(GateCheckIp) /\ WF_vars(GateSleepIp)

LiveSpec == Spec /\ WifiFairness

\* The client harness: one client instance over a network that is ready, and
\* a caller that uses it repeatedly.
ClientInit ==
    /\ wifiState = "StaConnected"
    /\ configured = TRUE
    /\ evDisconnected = FALSE
    /\ supPc = "waitEvent"
    /\ trace = "Wifi connected!"
    /\ nDisc = 0
    /\ nFail = 0
    /\ waitedMs = 0
    /\ stackLinkUp = TRUE
    /\ configV4 = TRUE
    /\ mainPc = "harness"
    /\ panicked = FALSE
    /\ rtcMemory = Absent
    /\ bootPc = "NotStarted"
    /\ clock = NoClock
    /\ clientPc = "idle"
    /\ sessions = 0
    /\ slotsUsed = 0
    /\ response = <<>>
    /\ sendResult = Pending
    /\ fetchResult = Pending
    /\ fetchCalls = 0
    /\ calls = 0
    /\ prevSend = Outcome(Pending)

ClientNext ==
    \/ HarnessCall
    \/ SendRequestConnect \/ SendRequestSend \/ SendRequestRead \/ FetchDecode

ClientSpec == ClientInit /\ [][ClientNext]_vars

----------------------------------------------------------------------------
(* Claims                                                                  *)

C3_BootstrapGraphOnly ==
    /\ [][bootPc' # bootPc => <<bootPc, bootPc'>> \in
             {<<"NotStarted", "TryPersistent">>,
              <<"TryPersistent", "Done">>, <<"TryPersistent", "TryNetwork">>,
              <<"TryNetwork", "Done">>, <<"TryNetwork", "Fallback">>,
              <<"Fallback", "Done">>}]_vars
    /\ [](fetchCalls <= 1)
    /\ []((bootPc = "Done") <=> (clock # NoClock))
    /\ [][clock # NoClock => clock' = clock]_vars

\* C3 failing run: the store is absent, the server answers 253402300800 and
\* the bootstrap halts in its network step, with no clock.
C3_HaltedInTryNetwork ==
    /\ bootPc = "Fault" /\ panicked /\ clock = NoClock
    /\ rtcMemory = Absent /\ response = Year10000Body /\ fetchCalls = 1

\* C4: when the store holds a clock, the bootstrap never builds or calls the
\* time-fetch client (no call, no session, no network step) and the clock it
\* returns is the stored one, epoch and offset unchanged.
C4_StoredClockNoFetch ==
    rtcMemory # Absent =>
        /\ fetchCalls = 0 /\ clientPc = "none" /\ sessions = 0 /\ slotsUsed = 0
        /\ bootPc \in {"NotStarted", "TryPersistent", "Done"}
        /\ (bootPc = "Done" => clock = rtcMemory)
        /\ (bootPc # "Done" => clock = NoClock)

\* C4 witness: the store held (42, +2 h) and the bootstrap returned it.
C4_ReturnedStoredClock ==
    /\ bootPc = "Done" /\ mainPc = "webApp"
    /\ rtcMemory = Clock(Int64(FALSE, <<4, 2>>), 2)
    /\ clock = Clock(Int64(FALSE, <<4, 2>>), 2)
    /\ fetchCalls = 0

\* C5: when the store is absent and the fetch returned an error, whichever
\* variant, the bootstrap goes through the fallback to Done and returns the
\* clock (0, UTC): the error is not handed on and stops nothing.
C5_FetchErrorAbsorbed ==
    /\ []((rtcMemory = Absent /\ fetchResult.tag = "Err" /\ bootPc = "Done")
            => clock = Clock(Zero, UTC))
    /\ []((fetchResult.tag = "Err" /\ bootPc # "NotStarted")
            => bootPc \in {"TryNetwork", "Fallback", "Done"})
    /\ [][(fetchResult.tag = "Err" /\ bootPc' # bootPc)
            => <<bootPc, bootPc'>> \in {<<"TryNetwork", "Fallback">>, <<"Fallback", "Done">>}]_vars

\* C5 witness: the name lookup failed and main goes on with the clock (0, UTC).
C5_FallbackAfterDnsFailure ==
    /\ rtcMemory = Absent /\ fetchResult = Err("Reqless", "Dns")
    /\ bootPc = "Done" /\ clock = Clock(Zero, UTC) /\ mainPc = "webApp"

\* The body send_request returned is a valid signed base-10 64-bit integer.
ReturnedInteger ==
    /\ sendResult.tag = "Ok"
    /\ from_utf8_ok(sendResult.val)
    /\ ParseI64(sendResult.val).tag = "Ok"

\* C6 as stated: when the store is absent and the fetched body is a valid
\* signed base-10 integer n, the bootstrap ends in Done with the clock
\* (n, UTC).
C6_FetchedIntegerAdopted ==
    (rtcMemory = Absent /\ bootPc \in {"Done", "Fault"} /\ ReturnedInteger)
        => (bootPc = "Done" /\ clock = Clock(ParseI64(sendResult.val).val, UTC))

\* C6 failing run: the store is absent, the fetched body is
\* 9223372036854775807 and the bootstrap returns no clock.
C6_NoClockForI64Max ==
    /\ rtcMemory = Absent /\ sendResult = Ok(I64MaxBody)
    /\ bootPc = "Fault" /\ clock = NoClock /\ mainPc = "loadClock"

\* C7 as stated: for every body that is valid UTF-8 and parses as a signed
\* base-10 64-bit integer n, the finished fetch_current_time has returned
\* Ok(n).
C7_EveryIntegerReturned ==
    (clientPc \in {"done", "panicked"} /\ ReturnedInteger)
        => fetchResult = Ok(ParseI64(sendResult.val).val)

\* C7 failing run: the body is 9223372036854775807 and fetch_current_time
\* has returned nothing.
C7_NoResultForI64Max ==
    /\ mainPc = "harness" /\ sendResult = Ok(I64MaxBody)
    /\ clientPc = "panicked" /\ fetchResult = Pending

\* send_request failed for a reason of the transport, not of the body.
TransportFailure ==
    sendResult.tag = "Err" /\ sendResult.cause \in {"Dns", "Connect", "Tls", "Network"}

\* C8 as stated: when a body longer than 4096 bytes was delivered,
\* send_request returns Error::ResponseTooLarge; and the call after such a
\* failure, when a body of at most 4096 bytes was delivered, returns that body.
C8_OversizedIsResponseTooLarge ==
    /\ (clientPc = "returned" /\ Len(response) > RESPONSE_SIZE /\ ~TransportFailure)
          => sendResult = Err("ResponseTooLarge", "")
    /\ (clientPc = "returned" /\ Len(response) <= RESPONSE_SIZE /\ ~TransportFailure
          /\ prevSend \in {<<"ResponseTooLarge", "">>, <<"Reqless", "BufferTooSmall">>})
          => sendResult = Ok(response)

\* C8 failing run: a body of 4097 bytes was delivered and send_request
\* returned the HTTP client's buffer error.
C8_OversizedIsBufferTooSmall ==
    /\ mainPc = "harness" /\ clientPc = "returned"
    /\ Len(response) = RESPONSE_SIZE + 1
    /\ sendResult = Err("Reqless", "BufferTooSmall")

\* C9: a client instance has at most one session in flight and its one
\* connection slot is held by at most one session, in every state; a call
\* begins only when no session of the instance is in flight.
C9_OneSessionPerClient ==
    /\ [](sessions <= 1 /\ slotsUsed <= PoolSize /\ slotsUsed <= sessions)
    /\ []((sessions = 1) <=> (clientPc \in {"request", "send", "read"}))
    /\ [][fetchCalls' # fetchCalls => (sessions = 0 /\ slotsUsed = 0 /\ sessions' = 1)]_vars

\* C9 witness: the second call on the instance holds the connection slot,
\* after the first call failed on an oversized body.
C9_SecondCallHoldsSlot ==
    /\ mainPc = "harness" /\ calls = 2 /\ fetchCalls = 2
    /\ sessions = 1 /\ slotsUsed = 1 /\ clientPc = "read"
    /\ prevSend = <<"Reqless", "BufferTooSmall">>

\* C11: after a failed association attempt the supervisor waits exactly one
\* delay of 5000 ms, however many attempts failed before, waits no more
\* before it attempts again, and does attempt again: with the timer and the
\* executor running, every failure leads to another association attempt
\* (unless a panic has stopped the executor).
C11_RetryAfterSameDelay ==
    /\ [][(supPc = "retryDelay" /\ supPc' # supPc)
            => (supPc' = "loop" /\ waitedMs' = waitedMs + DelayMs)]_vars
    /\ [][(trace = "Failed to connect to wifi" /\ supPc # "retryDelay")
            => (waitedMs' = waitedMs /\ supPc' \in {"loop", "checkStarted", "connecting"})]_vars
    /\ [](trace = "Failed to connect to wifi"
            => (supPc \in {"retryDelay", "loop", "checkStarted"}
                /\ is_started /\ wifiState # "StaConnected"))
    /\ (supPc = "retryDelay") ~> (supPc = "connecting" \/ panicked)

\* C11 witness: the third attempt in a row, after two failures and two
\* delays of 5000 ms.
C11_ThirdAttemptInARow ==
    /\ supPc = "connecting" /\ trace = "About to connect..."
    /\ nFail = 2 /\ nDisc = 0 /\ waitedMs = 2 * DelayMs

\* C12: a failure to apply the client configuration or to start the radio
\* ends the supervisor: it happens only out of those two steps, the
\* controller is then not started, and from then on the supervisor takes no
\* step at all, so it neither starts the radio nor attempts an association
\* again.
C12_StartFailureIsFatal ==
    /\ [][supPc = "panicked"
            => (supPc' = "panicked" /\ panicked'
                /\ UNCHANGED <<trace, configured, wifiState, nFail, waitedMs>>)]_vars
    /\ [][(supPc' = "panicked" /\ supPc # "panicked")
            => (supPc \in {"checkStarted", "starting"} /\ ~is_started)]_vars
    /\ [](supPc = "panicked" => (panicked /\ ~is_started))

\* C12 witness: start_async failed after the configuration was applied; the
\* supervisor is stopped while the gate is still waiting for the link.
C12_StoppedAfterStartFailure ==
    /\ supPc = "panicked" /\ panicked
    /\ configured /\ trace = "Starting wifi" /\ wifiState = "Invalid"
    /\ mainPc = "sleepLink"

\* C13: inside one call the client only moves forward, connect (resolve,
\* TCP, TLS) then send then read, each at most once, and begins no new call;
\* the first step that fails ends send_request with that failure as an Error
\* value, which fetch_current_time hands to its caller unchanged, and
\* nothing panics.
C13_NoRetryInsideClient ==
    /\ [][clientPc' # clientPc =>
            <<clientPc, clientPc'>> \in
                {<<"idle", "request">>, <<"done", "request">>,
                 <<"request", "send">>, <<"request", "returned">>,
                 <<"send", "read">>, <<"send", "returned">>,
                 <<"read", "returned">>,
                 <<"returned", "done">>, <<"returned", "panicked">>}]_vars
    /\ [][(clientPc \in {"request", "send", "read", "returned"})
            => (fetchCalls' = fetchCalls)]_vars
    /\ [][(clientPc \in {"request", "send", "read"} /\ clientPc' = "returned"
             /\ sendResult'.tag = "Err")
            => (sendResult'.variant \in {"Reqless", "ResponseTooLarge"} /\ ~panicked')]_vars
    /\ []((clientPc = "returned" /\ TransportFailure) => ~panicked)
    /\ []((clientPc = "done" /\ TransportFailure) => (fetchResult = sendResult /\ ~panicked))

\* C13 witness: the caller makes its second call after the first one came
\* back with the failed name lookup.
C13_CallerGoesOnAfterDnsFailure ==
    /\ mainPc = "harness" /\ clientPc = "request" /\ ~panicked
    /\ calls = 2 /\ fetchCalls = 2 /\ prevSend = <<"Reqless", "Dns">>

\* C14 as stated: whenever the supervisor attempts an association, every
\* disconnect event (and every failed attempt) before it has been followed
\* by its delay of 5000 ms; and while the supervisor is in the phase
\* Connected it waits for a disconnect event or for the delay after one.
C14_DelayAfterEveryDisconnect ==
    /\ (supPc = "connecting" => waitedMs >= DelayMs * (nDisc + nFail))
    /\ (ConnectionState = "Connected"
          => supPc \in {"loop", "enterWait", "waitEvent", "debounce", "checkStarted"})
    /\ ((ConnectionState = "Connected" /\ supPc = "checkStarted")
          => waitedMs >= DelayMs * (nDisc + nFail))

\* C14 failing run: an association attempt right after a disconnect, with no
\* delay waited at all.
C14_ReattemptWithoutDelay ==
    /\ supPc = "connecting" /\ trace = "About to connect..."
    /\ nDisc = 1 /\ nFail = 0 /\ waitedMs = 0
    /\ wifiState = "StaDisconnected"

\* C15: at the check of an iteration the supervisor applies the
\* configuration and starts the radio exactly when the controller is not
\* started, and otherwise goes on to the association attempt with the
\* configuration untouched; an association attempt is in progress only
\* while the controller is started and configured; the controller, once
\* started, stays started, and from then on the supervisor never configures
\* or starts again.
C15_ConfigureIffNotStarted ==
    /\ [][(supPc = "checkStarted" /\ supPc' # supPc)
            => IF is_started
               THEN supPc' = "connecting" /\ configured' = configured
               ELSE supPc' \in {"starting", "panicked"}
                    /\ (supPc' = "starting" => configured')]_vars
    /\ [][(supPc' = "starting" /\ supPc # "starting")
            => (supPc = "checkStarted" /\ ~is_started)]_vars
    /\ [][configured' # configured => (supPc = "checkStarted" /\ ~is_started)]_vars
    /\ [](supPc = "connecting" => (is_started /\ configured /\ wifiState # "StaConnected"))
    /\ [](is_started => (configured /\ supPc \notin {"starting", "panicked"}))
    /\ [][is_started => is_started']_vars

\* C15 witness: a second association attempt, after a failed one and its
\* delay, made without configuring or starting again.
C15_SecondAttemptWithoutRestart ==
    /\ supPc = "connecting" /\ trace = "About to connect..."
    /\ wifiState = "StaDisconnected" /\ configured
    /\ nFail = 1 /\ nDisc = 0 /\ waitedMs = DelayMs

\* C16: the gate moves only from its link phase to its lease phase, and
\* only on a check that finds the link up; it returns only out of the lease
\* phase, and only on a check that finds a lease; a check that fails leads
\* to a 500 ms sleep and back to the same check, with no other way out (no
\* timeout, no error).  So in a run where the stack never reports link-up
\* the gate stays in its link phase, and in a run where no lease is ever
\* held the gate never returns.
C16_TwoPhasesNoTimeout ==
    /\ [][mainPc' # mainPc =>
            CASE mainPc = "waitLink" ->
                   IF stackLinkUp THEN mainPc' = "waitIp" ELSE mainPc' = "sleepLink"
              [] mainPc = "sleepLink" -> mainPc' = "waitLink"
              [] mainPc = "waitIp" ->
                   IF configV4 THEN mainPc' = "ready" ELSE mainPc' = "sleepIp"
              [] mainPc = "sleepIp" -> mainPc' = "waitIp"
              [] OTHER -> mainPc' \notin {"waitIp", "sleepLink", "sleepIp"}]_vars
    /\ [][(HandlePublished' /\ ~HandlePublished) => (mainPc = "waitIp" /\ configV4)]_vars
    /\ ([]~stackLinkUp) => [](mainPc \in {"init", "waitLink", "sleepLink"})
    /\ ([]~configV4) => []~HandlePublished

\* C16 witness: the gate has returned after the first association attempt
\* failed, so after waiting in its link phase; the link never dropped.
C16_ReturnedAfterWaiting ==
    /\ mainPc = "ready" /\ stackLinkUp /\ configV4
    /\ nFail = 1 /\ nDisc = 0 /\ waitedMs = DelayMs

\* The text is a base-10 64-bit integer with at most one leading sign out of
\* signs: the sign if any, then one or more digits and nothing else, the
\* value within i64.
PrefixedI64(text, signs) ==
    LET signed == Len(text) > 0 /\ text[1] \in signs
        ds == IF signed THEN Tail(text) ELSE text
    IN /\ Len(ds) > 0
       /\ \A i \in 1..Len(ds) : ds[i] \in Digits
       /\ ~MagLess(IF signed /\ text[1] = "-" THEN I64MinMag ELSE I64MaxMag, Magnitude(ds))

\* C17 as stated: a finished fetch_current_time has returned the failure of
\* send_request unchanged; else Utf8Error for a body that is not UTF-8; else
\* ParseIntError for a body that is not a base-10 64-bit integer with an
\* optional leading '-'.
C17_MinusPrefixedOrParseError ==
    (clientPc \in {"done", "panicked"}) =>
        /\ (sendResult.tag = "Err" => fetchResult = sendResult)
        /\ ((sendResult.tag = "Ok" /\ ~from_utf8_ok(sendResult.val))
              => fetchResult = Err("Utf8Error", ""))
        /\ ((sendResult.tag = "Ok" /\ from_utf8_ok(sendResult.val)
               /\ ~PrefixedI64(sendResult.val, {"-"}))
              => fetchResult = Err("ParseIntError", ""))

\* C17 amended: as stated, but the integer may have a leading '+' as well
\* as a leading '-': ParseIntError is returned exactly for the UTF-8 bodies
\* that are not such an integer, and in none of the three failure cases is
\* there a timestamp or a panic.
C17_SignPrefixedOrParseError ==
    (clientPc \in {"done", "panicked"}) =>
        /\ (sendResult.tag = "Err" => (fetchResult = sendResult /\ clientPc = "done"))
        /\ ((sendResult.tag = "Ok" /\ ~from_utf8_ok(sendResult.val))
              => (fetchResult = Err("Utf8Error", "") /\ clientPc = "done"))
        /\ ((sendResult.tag = "Ok" /\ from_utf8_ok(sendResult.val)
               /\ ~PrefixedI64(sendResult.val, {"-", "+"}))
              => (fetchResult = Err("ParseIntError", "") /\ clientPc = "done"))
        /\ ((sendResult.tag = "Ok" /\ from_utf8_ok(sendResult.val)
               /\ PrefixedI64(sendResult.val, {"-", "+"}))
              => (clientPc = "panicked" \/ fetchResult.tag = "Ok"))

\* C17 witness: a body with trailing content was answered with ParseIntError.
C17_TrailingContentIsParseError ==
    /\ mainPc = "harness" /\ clientPc = "done"
    /\ sendResult = Ok(<<"7", " ">>)
    /\ fetchResult = Err("ParseIntError", "")

\* C18: when the body send_request returned is an integer outside the range
\* of calendar timestamps, fetch_current_time returns nothing, neither a
\* value nor an error: it panics, and the bootstrap that called it stays
\* without a clock for good, fetched or fallback; main goes no further.
C18_OutOfRangeIsPanic ==
    /\ []((clientPc # "returned" /\ ReturnedInteger
             /\ ~InTimestampRange(ParseI64(sendResult.val).val))
            => (/\ clientPc = "panicked" /\ panicked /\ fetchResult = Pending
                /\ bootPc = "Fault" /\ clock = NoClock /\ mainPc = "loadClock"))
    /\ [][bootPc = "Fault" => UNCHANGED <<bootPc, clock, fetchResult, clientPc, mainPc, panicked>>]_vars
    /\ [][(bootPc' = "Fault" /\ bootPc # "Fault")
            => (ReturnedInteger /\ ~InTimestampRange(ParseI64(sendResult.val).val))]_vars

\* C18 witness: the server answered -377705116801, one second before the
\* first calendar timestamp; the bootstrap is halted without a clock.
C18_HaltedBelowFirstTimestamp ==
    /\ sendResult = Ok(<<"-", "3", "7", "7", "7", "0", "5", "1", "1", "6", "8", "0", "1">>)
    /\ clientPc = "panicked" /\ bootPc = "Fault" /\ clock = NoClock

\* C19 as stated: each phase transition of the supervisor comes with its
\* trace line: beginning to start the radio and the radio being started,
\* each association attempt, each association result, and each observed
\* disconnect (wait_for_event returning).
C19_TraceOnEveryTransition ==
    /\ [][(supPc' = "starting" /\ supPc # "starting") => trace' = "Starting wifi"]_vars
    /\ [][(supPc' = "connecting" /\ supPc # "connecting") => trace' = "About to connect..."]_vars
    /\ [][(supPc = "connecting" /\ supPc' \in {"loop", "retryDelay"})
            => (trace' = IF supPc' = "loop" THEN "Wifi connected!"
                         ELSE "Failed to connect to wifi")]_vars
    /\ [][(supPc = "waitEvent" /\ supPc' = "debounce") => trace' # trace]_vars

\* C19 failing run: the supervisor has observed a disconnect and waits out
\* the delay; its last trace line is still that of the connection.
C19_DisconnectObservedSilently ==
    /\ supPc = "debounce" /\ nDisc = 1 /\ wifiState = "StaDisconnected"
    /\ trace = "Wifi connected!"

\* C20: the bootstrap begins only in the step after the gate returned, so
\* while the gate has not returned nothing of the bootstrap has happened (no
\* store lookup, no client, no fetch, no clock), whatever the store holds;
\* the web app is built and the web tasks are spawned only once the
\* bootstrap is Done and its clock exists; and in a run where no lease is
\* ever held neither the bootstrap nor a web task ever starts.
C20_GateThenBootstrapThenWeb ==
    /\ [][(bootPc = "NotStarted" /\ bootPc' # "NotStarted")
            => (mainPc = "ready" /\ mainPc' = "loadClock" /\ bootPc' = "TryPersistent")]_vars
    /\ [](~HandlePublished
            => (/\ bootPc = "NotStarted" /\ clock = NoClock
                /\ clientPc = "none" /\ fetchCalls = 0))
    /\ [](mainPc \in {"webApp", "serving"} => (bootPc = "Done" /\ clock # NoClock))
    /\ [][(mainPc' = "serving" /\ mainPc # "serving")
            => (mainPc = "webApp" /\ clock # NoClock /\ clock' = clock)]_vars
    /\ [][mainPc = "serving" => (mainPc' = "serving" /\ clock' = clock)]_vars
    /\ ([]~configV4) => [](bootPc = "NotStarted" /\ mainPc \notin {"webApp", "serving"})

\* C20 witness: the web tasks run with the clock the store held, after the
\* gate returned.
C20_ServingWithStoredClock ==
    /\ mainPc = "serving" /\ bootPc = "Done"
    /\ rtcMemory = Clock(Int64(TRUE, <<7>>), UTC) /\ clock = rtcMemory
    /\ fetchCalls = 0

\* C21: whenever send_request returns, with a body or with an error of any
\* step, no session borrows the record buffers any more and the connection
\* slot is free, and they stay so until the next call; so every call finds
\* the slot free when it connects and is never refused a connection for
\* want of a slot, and a caller is never kept from calling again.
C21_SlotFreeAfterReturn ==
    /\ [][(clientPc' = "returned" /\ clientPc # "returned")
            => (/\ clientPc \in {"request", "send", "read"}
                /\ sendResult'.tag \in {"Ok", "Err"}
                /\ sessions' = 0 /\ slotsUsed' = 0)]_vars
    /\ [](clientPc \in {"idle", "returned", "done", "panicked"}
            => (sessions = 0 /\ slotsUsed = 0))
    /\ [](clientPc = "request" => (sessions = 1 /\ slotsUsed < PoolSize))
    /\ [](clientPc \in {"send", "read"} => (sessions = 1 /\ slotsUsed = 1))
    /\ [](clientPc = "done" => ClientBorrowable)

\* C21 witness: the second call holds the connection slot after the first
\* call failed on the network (while sending or reading) with its
\* connection open.
C21_SlotReusedAfterSendFailure ==
    /\ mainPc = "harness" /\ calls = 2 /\ clientPc = "send"
    /\ sessions = 1 /\ slotsUsed = 1
    /\ prevSend = <<"Reqless", "Network">>

=============================================================================
